---- MODULE Spec2Model ----
(***************************************************************************)
(* A model of the nanobanana MCP server: the Gemini client                 *)
(* (generateImage, editImage, makeGeminiRequest, handleApiError), the two  *)
(* image tool handlers with their zod schemas, and main().                 *)
(*                                                                         *)
(* JavaScript objects are functions from property names to values; a       *)
(* property that is missing or undefined is a name outside the DOMAIN.     *)
(* A possibly-undefined value is <<>> (undefined) or <<v>> (the value v).  *)
(* File paths and base64 texts are sequences of one-character strings.     *)
(***************************************************************************)
EXTENDS Integers, Sequences, FiniteSets, TLC

VARIABLES
    env,      \* process.env: the property GEMINI_API_KEY, when set
    server,   \* main(): "init", then "running" (or "exited")
    stderr,   \* lines main() wrote with console.error
    files,    \* the filesystem: path -> bytes, for the paths that exist
    pc,       \* per call: where the invocation is suspended
    entry,    \* per call: the function or tool invoked ("" before the call)
    args,     \* per call: the raw arguments of a tool call (an object)
    frame,    \* per call: the parameters and locals of the running functions
    sent,     \* every HTTP request issued, in order
    reply,    \* per call: how axios.post settled (<<>> while it has not)
    result,   \* per call: the ImageGenerationResult of the core function
    payload   \* per call: the JSON object the tool handler returned

vars == <<env, server, stderr, files, pc, entry, args, frame, sent, reply,
          result, payload>>

-----------------------------------------------------------------------------
(* Objects and optional values *)

Empty == <<>>

Has(o, k) == k \in DOMAIN o

\* o.k as a possibly-undefined value
Get(o, k) == IF Has(o, k) THEN <<o[k]>> ELSE <<>>

\* the property k: v of an object literal; no property when v is undefined
Prop(k, v) == IF v = <<>> THEN Empty ELSE k :> v[1]

-----------------------------------------------------------------------------
(* constants.ts *)

API_BASE_URL == "https://generativelanguage.googleapis.com/v1beta"

FLASH == "gemini-2.0-flash-exp-image-generation"

PRO == "gemini-2.0-flash-exp"

API_TIMEOUT == 60000

PromptMaxLength == 10000

-----------------------------------------------------------------------------
(* Characters, paths and base64 *)

Lower ==
    ("P" :> "p") @@ ("N" :> "n") @@ ("G" :> "g") @@ ("J" :> "j") @@ ("E" :> "e") @@
    ("W" :> "w") @@ ("B" :> "b") @@ ("I" :> "i") @@ ("F" :> "f")

\* String.prototype.toLowerCase, one character at a time
toLowerCase(s) == [i \in 1..Len(s) |-> IF Has(Lower, s[i]) THEN Lower[s[i]] ELSE s[i]]

\* the last index of ch in s, 0 when there is none
LastIndexOf(s, ch) ==
    IF \E i \in 1..Len(s) : s[i] = ch
    THEN CHOOSE i \in 1..Len(s) : s[i] = ch /\ \A j \in (i+1)..Len(s) : s[j] # ch
    ELSE 0

\* path.basename: what follows the last "/"
basename(p) == SubSeq(p, LastIndexOf(p, "/") + 1, Len(p))

\* path.extname: from the last "." of the basename, "" when there is none or
\* when the basename starts with its only "."
extname(p) ==
    LET b == basename(p)
        d == LastIndexOf(b, ".")
    IN  IF d <= 1 THEN <<>> ELSE SubSeq(b, d, Len(b))

EXT_PNG == <<".", "p", "n", "g">>

EXT_JPG == <<".", "j", "p", "g">>

EXT_JPEG == <<".", "j", "p", "e", "g">>

EXT_WEBP == <<".", "w", "e", "b", "p">>

EXT_GIF == <<".", "g", "i", "f">>

mimeTypes ==
    (EXT_PNG :> "image/png") @@ (EXT_JPG :> "image/jpeg") @@
    (EXT_JPEG :> "image/jpeg") @@ (EXT_WEBP :> "image/webp") @@
    (EXT_GIF :> "image/gif")

getMimeTypeFromPath(filePath) ==
    LET ext == toLowerCase(extname(filePath))
    IN  IF Has(mimeTypes, ext) THEN mimeTypes[ext] ELSE "image/png"

\* The base64 alphabet: the character of each sextet 0..63
B64Alphabet ==
    <<"A", "B", "C", "D", "E", "F", "G", "H", "I", "J", "K", "L", "M", "N", "O",
      "P", "Q", "R", "S", "T", "U", "V", "W", "X", "Y", "Z", "a", "b", "c", "d",
      "e", "f", "g", "h", "i", "j", "k", "l", "m", "n", "o", "p", "q", "r", "s",
      "t", "u", "v", "w", "x", "y", "z", "0", "1", "2", "3", "4", "5", "6", "7",
      "8", "9", "+", "/">>

B64Char(n) == B64Alphabet[n + 1]

B64Value(ch) == (CHOOSE i \in 1..Len(B64Alphabet) : B64Alphabet[i] = ch) - 1

IsB64Char(ch) == \E i \in 1..Len(B64Alphabet) : B64Alphabet[i] = ch

\* Buffer.prototype.toString("base64")
RECURSIVE toBase64(_)
toBase64(bytes) ==
    IF Len(bytes) = 0 THEN <<>>
    ELSE IF Len(bytes) = 1 THEN
        <<B64Char(bytes[1] \div 4), B64Char((bytes[1] % 4) * 16), "=", "=">>
    ELSE IF Len(bytes) = 2 THEN
        <<B64Char(bytes[1] \div 4),
          B64Char((bytes[1] % 4) * 16 + bytes[2] \div 16),
          B64Char((bytes[2] % 16) * 4), "=">>
    ELSE
        <<B64Char(bytes[1] \div 4),
          B64Char((bytes[1] % 4) * 16 + bytes[2] \div 16),
          B64Char((bytes[2] % 16) * 4 + bytes[3] \div 64),
          B64Char(bytes[3] % 64)>> \o toBase64(SubSeq(bytes, 4, Len(bytes)))

\* the base64 digits of a text up to its first "=", other characters skipped
RECURSIVE B64Digits(_)
B64Digits(s) ==
    IF Len(s) = 0 \/ s[1] = "=" THEN <<>>
    ELSE (IF IsB64Char(s[1]) THEN <<B64Value(s[1])>> ELSE <<>>) \o B64Digits(Tail(s))

RECURSIVE B64Bytes(_)
B64Bytes(d) ==
    IF Len(d) <= 1 THEN <<>>
    ELSE IF Len(d) = 2 THEN <<d[1] * 4 + d[2] \div 16>>
    ELSE IF Len(d) = 3 THEN
        <<d[1] * 4 + d[2] \div 16, (d[2] % 16) * 16 + d[3] \div 4>>
    ELSE
        <<d[1] * 4 + d[2] \div 16, (d[2] % 16) * 16 + d[3] \div 4,
          (d[3] % 4) * 64 + d[4]>> \o B64Bytes(SubSeq(d, 5, Len(d)))

\* Buffer.from(text, "base64")
fromBase64(s) == B64Bytes(B64Digits(s))

-----------------------------------------------------------------------------
(* Thrown values.  An Error is an object with a name and a message; an     *)
(* AxiosError also has isAxiosError and, when set, code and response.  A   *)
(* thrown value that is no Error is an object with the one property        *)
(* "string", what String() makes of it.                                    *)

Error(message) == ("name" :> "Error") @@ ("message" :> message)

TypeError(message) == ("name" :> "TypeError") @@ ("message" :> message)

isAxiosError(error) == Has(error, "isAxiosError")

instanceofError(error) == Has(error, "name")

\* a function's completion: it returned a value, or it threw one
Return(v) == [threw |-> FALSE, value |-> v]

Throw(e) == [threw |-> TRUE, value |-> e]

MissingKeyMessage ==
    "GEMINI_API_KEY environment variable is required. " \o
    "Get your API key from https://aistudio.google.com/apikey"

\* getApiKey handing on whatever the environment holds
getApiKeyUnchecked(e) ==
    Return(IF Has(e, "GEMINI_API_KEY") THEN e["GEMINI_API_KEY"] ELSE "undefined")

getApiKey(e) ==
    IF ~Has(e, "GEMINI_API_KEY") \/ e["GEMINI_API_KEY"] = ""
    THEN Throw(Error(MissingKeyMessage))
    ELSE Return(e["GEMINI_API_KEY"])

\* axiosError.response.data?.error?.message
upstreamMessage(response) ==
    IF Has(response, "data") /\ Has(response["data"], "error")
       /\ Has(response["data"]["error"], "message")
    THEN <<response["data"]["error"]["message"]>>
    ELSE <<>>

\* message || fallback: undefined and "" are falsy
OrElse(message, fallback) ==
    IF message = <<>> \/ message[1] = "" THEN fallback ELSE message[1]

handleStatusAs503Is500(status, message) ==
    CASE status = 400 ->
           "Error: Invalid request. " \o OrElse(message, "Check your prompt and parameters.")
      [] status = 401 ->
           "Error: Invalid API key. Please check your GEMINI_API_KEY environment variable."
      [] status = 403 ->
           "Error: Access denied. " \o
           OrElse(message, "Your API key may not have access to this model.")
      [] status = 404 -> "Error: Model not found. Please check the model name."
      [] status = 429 ->
           "Error: Rate limit exceeded. Please wait before making more requests."
      [] status \in {500, 503} -> "Error: Gemini API server error. Please try again later."
      [] OTHER ->
           "Error: API request failed with status " \o ToString(status) \o ". " \o
           OrElse(message, "")

\* the switch on the status of an HTTP error response
handleStatus(status, message) ==
    CASE status = 400 ->
           "Error: Invalid request. " \o OrElse(message, "Check your prompt and parameters.")
      [] status = 401 ->
           "Error: Invalid API key. Please check your GEMINI_API_KEY environment variable."
      [] status = 403 ->
           "Error: Access denied. " \o
           OrElse(message, "Your API key may not have access to this model.")
      [] status = 404 -> "Error: Model not found. Please check the model name."
      [] status = 429 ->
           "Error: Rate limit exceeded. Please wait before making more requests."
      [] status = 500 -> "Error: Gemini API server error. Please try again later."
      [] status = 503 -> "Error: Gemini API service unavailable. Please try again later."
      [] OTHER ->
           "Error: API request failed with status " \o ToString(status) \o ". " \o
           OrElse(message, "")

\* handleApiError testing the error code before the response
handleApiErrorCodeFirst(error) ==
    IF isAxiosError(error) /\ Get(error, "code") = <<"ECONNABORTED">>
    THEN "Error: Request timed out. Image generation can take a while - please try again."
    ELSE IF isAxiosError(error) /\ Get(error, "code") = <<"ENOTFOUND">>
    THEN "Error: Unable to reach Gemini API. Please check your network connection."
    ELSE IF isAxiosError(error) /\ Has(error, "response")
    THEN handleStatus(error["response"]["status"], upstreamMessage(error["response"]))
    ELSE "Error: " \o (IF instanceofError(error) THEN error["message"] ELSE error["string"])

handleApiError(error) ==
    IF isAxiosError(error) /\ Has(error, "response")
    THEN handleStatus(error["response"]["status"], upstreamMessage(error["response"]))
    ELSE IF isAxiosError(error) /\ Get(error, "code") = <<"ECONNABORTED">>
    THEN "Error: Request timed out. Image generation can take a while - please try again."
    ELSE IF isAxiosError(error) /\ Get(error, "code") = <<"ENOTFOUND">>
    THEN "Error: Unable to reach Gemini API. Please check your network connection."
    ELSE "Error: " \o (IF instanceofError(error) THEN error["message"] ELSE error["string"])

-----------------------------------------------------------------------------
(* The upstream API: what axios.post can settle with *)

MaxParts == 2

TextPart(t) == "text" :> t

InlineDataPart(mimeType, data) == "inlineData" :> [mimeType |-> mimeType, data |-> data]

Texts == {"Here is your balloon", "I can't create that image."}

Images ==
    {[mimeType |-> "image/png", data |-> <<"i", "V", "B", "O">>],
     [mimeType |-> "image/jpeg", data |-> <<"/", "9", "j", "/", "4", "A", "=", "=">>]}

\* a part that is neither text nor inline data (the scan skips it)
OtherPart == "functionCall" :> "lookup"

Parts ==
    {TextPart(t) : t \in Texts} \cup
    {InlineDataPart(i.mimeType, i.data) : i \in Images} \cup {OtherPart}

PartLists == UNION {[1..n -> Parts] : n \in 0..MaxParts}

FinishReasons == {"STOP", "MAX_TOKENS"}

Candidate(parts, finishReason) ==
    ("content" :> (("parts" :> parts) @@ ("role" :> "model"))) @@
    ("finishReason" :> finishReason) @@ ("index" :> 0)

\* a candidate the API cut short: no content at all
BlockedCandidate == ("finishReason" :> "SAFETY") @@ ("index" :> 0)

\* a candidate whose content has no parts
HollowCandidate ==
    ("content" :> ("role" :> "model")) @@ ("finishReason" :> "RECITATION") @@
    ("index" :> 0)

\* a second candidate; the extractor must not look at it
SecondCandidate ==
    ("content" :>
        (("parts" :> <<TextPart("second opinion"),
                       InlineDataPart("image/webp", <<"U", "k", "l", "G">>)>>)
         @@ ("role" :> "model"))) @@
    ("finishReason" :> "OTHER") @@ ("index" :> 1)

FirstCandidates ==
    {Candidate(pl, fr) : pl \in PartLists, fr \in FinishReasons} \cup
    {BlockedCandidate, HollowCandidate}

\* the bodies of 2xx responses
Responses ==
    {"modelVersion" :> "v1", "candidates" :> <<>>} \cup
    {"candidates" :> <<c>> : c \in FirstCandidates} \cup
    {"candidates" :> <<c, SecondCandidate>> : c \in FirstCandidates}

Statuses == {400, 401, 403, 404, 418, 429, 500, 503}

ErrorBodies ==
    {Empty,
     "data" :> ("error" :> ("message" :> "API key not valid")),
     "data" :> ("error" :> ("message" :> "")),
     "data" :> ("error" :> ("status" :> "INTERNAL"))}

AxiosError(message, code, response) ==
    ("name" :> "AxiosError") @@ ("isAxiosError" :> TRUE) @@ ("message" :> message) @@
    Prop("code", code) @@ Prop("response", response)

\* what axios.post rejects with
Rejections ==
    {AxiosError("Request failed with status code " \o ToString(st),
                <<IF st >= 500 THEN "ERR_BAD_RESPONSE" ELSE "ERR_BAD_REQUEST">>,
                <<("status" :> st) @@ b>>) : st \in Statuses, b \in ErrorBodies} \cup
    {AxiosError("timeout of 60000ms exceeded", <<"ECONNABORTED">>,
                <<("status" :> 503) @@ Empty>>),
     AxiosError("getaddrinfo ENOTFOUND generativelanguage.googleapis.com",
                <<"ENOTFOUND">>, <<("status" :> 404) @@ Empty>>),
     AxiosError("timeout of 60000ms exceeded", <<"ECONNABORTED">>, <<>>),
     AxiosError("getaddrinfo ENOTFOUND generativelanguage.googleapis.com",
                <<"ENOTFOUND">>, <<>>),
     AxiosError("socket hang up", <<"ECONNRESET">>, <<>>),
     AxiosError("Network Error", <<>>, <<>>),
     TypeError("Converting circular structure to JSON"),
     "string" :> "aborted"}

\* how axios.post settles: {data} of a 2xx response, or a rejection
Settlements ==
    {[ok |-> TRUE, value |-> ("status" :> 200) @@ ("data" :> r)] : r \in Responses} \cup
    {[ok |-> FALSE, value |-> e] : e \in Rejections}

-----------------------------------------------------------------------------
(* gemini-client: the request, the single POST, the response scan *)

\* `${x}` of a possibly-undefined string
Str(v) == IF v = <<>> THEN "undefined" ELSE v[1]

\* generateImage's request literal
generateImage_request(prompt) ==
    [contents |-> <<"parts" :> <<TextPart(Str(prompt))>>>>,
     generationConfig |-> [responseModalities |-> <<"TEXT", "IMAGE">>]]

\* editImage_request with the image part put before the text part
editImage_requestImageFirst(prompt, imageMimeType, imageBase64) ==
    [contents |-> <<"parts" :> <<InlineDataPart(imageMimeType, imageBase64),
                                  TextPart(Str(prompt))>>>>,
     generationConfig |-> [responseModalities |-> <<"TEXT", "IMAGE">>]]

\* editImage's request literal
editImage_request(prompt, imageMimeType, imageBase64) ==
    [contents |-> <<"parts" :> <<TextPart(Str(prompt)),
                                  InlineDataPart(imageMimeType, imageBase64)>>>>,
     generationConfig |-> [responseModalities |-> <<"TEXT", "IMAGE">>]]

\* makeGeminiRequest up to its await: it throws for a missing key before
\* anything is sent, or hands axios.post the one request of the call
makeGeminiRequest(e, model, request) ==
    LET apiKey == getApiKey(e)
    IN  IF apiKey.threw THEN Throw(apiKey.value)
        ELSE Return([method |-> "POST",
                     url |-> API_BASE_URL \o "/models/" \o Str(model) \o ":generateContent",
                     body |-> request,
                     headers |-> [ContentType |-> "application/json"],
                     params |-> [key |-> apiKey.value],
                     timeout |-> API_TIMEOUT])

\* makeGeminiRequest after its await: response.data, or the rejection rethrown
makeGeminiRequest_settled(settlement) ==
    IF settlement.ok THEN Return(settlement.value["data"]) ELSE Throw(settlement.value)

\* a result object; the model, text and finishReason may be undefined
Failure(error, model) ==
    ("success" :> FALSE) @@ ("error" :> error) @@ Prop("model", model)

\* the for loop over candidate.content.parts, from part i on
RECURSIVE generateImage_scan(_, _, _)
generateImage_scan(parts, i, res) ==
    IF i > Len(parts) THEN res
    ELSE LET part == parts[i]
             next == IF Has(part, "text")
                     THEN ("text" :> part["text"]) @@ res
                     ELSE IF Has(part, "inlineData")
                     THEN ("image" :> [mimeType |-> part["inlineData"].mimeType,
                                       data |-> part["inlineData"].data]) @@ res
                     ELSE res
         IN  generateImage_scan(parts, i + 1, next)

\* editImage_scan keeping the first text and the first image it meets
RECURSIVE editImage_scanFirstWins(_, _, _)
editImage_scanFirstWins(parts, i, res) ==
    IF i > Len(parts) THEN res
    ELSE LET part == parts[i]
             next == IF Has(part, "text")
                     THEN res @@ ("text" :> part["text"])
                     ELSE IF Has(part, "inlineData")
                     THEN res @@ ("image" :> [mimeType |-> part["inlineData"].mimeType,
                                              data |-> part["inlineData"].data])
                     ELSE res
         IN  editImage_scanFirstWins(parts, i + 1, next)

RECURSIVE editImage_scan(_, _, _)
editImage_scan(parts, i, res) ==
    IF i > Len(parts) THEN res
    ELSE LET part == parts[i]
             next == IF Has(part, "text")
                     THEN ("text" :> part["text"]) @@ res
                     ELSE IF Has(part, "inlineData")
                     THEN ("image" :> [mimeType |-> part["inlineData"].mimeType,
                                       data |-> part["inlineData"].data]) @@ res
                     ELSE res
         IN  editImage_scan(parts, i + 1, next)

NoContentError == TypeError("Cannot read properties of undefined (reading 'parts')")

NoPartsError == TypeError("candidate.content.parts is not iterable")

\* a completion that also says whether the scan of the parts was entered
Scanned(completion, entered) ==
    [threw |-> completion.threw, value |-> completion.value, scanned |-> entered]

\* generateImage_extract without the final test for an image
generateImage_extractKeepsSuccess(response, model) ==
    IF ~Has(response, "candidates") \/ Len(response["candidates"]) = 0
    THEN Scanned(Return(Failure("No candidates returned from the API", model)), FALSE)
    ELSE LET candidate == response["candidates"][1]
             res0 == ("success" :> TRUE) @@ Prop("model", model) @@
                     Prop("finishReason", Get(candidate, "finishReason"))
         IN  IF ~Has(candidate, "content") THEN Scanned(Throw(NoContentError), FALSE)
             ELSE IF ~Has(candidate["content"], "parts")
             THEN Scanned(Throw(NoPartsError), FALSE)
             ELSE Scanned(Return(generateImage_scan(candidate["content"]["parts"], 1, res0)),
                          TRUE)

\* generateImage's try block after the await, given response.data
generateImage_extract(response, model) ==
    IF ~Has(response, "candidates") \/ Len(response["candidates"]) = 0
    THEN Scanned(Return(Failure("No candidates returned from the API", model)), FALSE)
    ELSE LET candidate == response["candidates"][1]
             res0 == ("success" :> TRUE) @@ Prop("model", model) @@
                     Prop("finishReason", Get(candidate, "finishReason"))
         IN  IF ~Has(candidate, "content") THEN Scanned(Throw(NoContentError), FALSE)
             ELSE IF ~Has(candidate["content"], "parts")
             THEN Scanned(Throw(NoPartsError), FALSE)
             ELSE LET res == generateImage_scan(candidate["content"]["parts"], 1, res0)
                  IN  IF ~Has(res, "image")
                      THEN Scanned(Return(
                             Failure("No image was generated. The model may have refused or encountered an issue.",
                                     model) @@ Prop("text", Get(res, "text"))), TRUE)
                      ELSE Scanned(Return(res), TRUE)

\* editImage_extract with generateImage's message for a response without image
editImage_extractSameMessage(response, model) == generateImage_extract(response, model)

\* editImage_extract testing only that candidates is there, not its length
editImage_extractNoLengthTest(response, model) ==
    IF ~Has(response, "candidates")
    THEN Scanned(Return(Failure("No candidates returned from the API", model)), FALSE)
    ELSE IF Len(response["candidates"]) = 0
    THEN Scanned(Throw(TypeError("Cannot read properties of undefined (reading 'finishReason')")),
                 FALSE)
    ELSE LET candidate == response["candidates"][1]
             res0 == ("success" :> TRUE) @@ Prop("model", model) @@
                     Prop("finishReason", Get(candidate, "finishReason"))
         IN  IF ~Has(candidate, "content") THEN Scanned(Throw(NoContentError), FALSE)
             ELSE IF ~Has(candidate["content"], "parts")
             THEN Scanned(Throw(NoPartsError), FALSE)
             ELSE LET res == editImage_scan(candidate["content"]["parts"], 1, res0)
                  IN  IF ~Has(res, "image")
                      THEN Scanned(Return(
                             Failure("No edited image was generated. The model may have refused or encountered an issue.",
                                     model) @@ Prop("text", Get(res, "text"))), TRUE)
                      ELSE Scanned(Return(res), TRUE)

\* editImage's second try block after the await, given response.data
editImage_extract(response, model) ==
    IF ~Has(response, "candidates") \/ Len(response["candidates"]) = 0
    THEN Scanned(Return(Failure("No candidates returned from the API", model)), FALSE)
    ELSE LET candidate == response["candidates"][1]
             res0 == ("success" :> TRUE) @@ Prop("model", model) @@
                     Prop("finishReason", Get(candidate, "finishReason"))
         IN  IF ~Has(candidate, "content") THEN Scanned(Throw(NoContentError), FALSE)
             ELSE IF ~Has(candidate["content"], "parts")
             THEN Scanned(Throw(NoPartsError), FALSE)
             ELSE LET res == editImage_scan(candidate["content"]["parts"], 1, res0)
                  IN  IF ~Has(res, "image")
                      THEN Scanned(Return(
                             Failure("No edited image was generated. The model may have refused or encountered an issue.",
                                     model) @@ Prop("text", Get(res, "text"))), TRUE)
                      ELSE Scanned(Return(res), TRUE)

\* generateImage_settled with the scan outside the try block
generateImage_settledScanUncaught(completion, model) ==
    IF completion.threw
    THEN Scanned(Return(Failure(handleApiError(completion.value), model)), FALSE)
    ELSE generateImage_extract(completion.value, model)

\* generateImage from the settling of makeGeminiRequest to its return: the
\* catch turns whatever was thrown, the extractor's TypeError included, into
\* a failed result
generateImage_settled(completion, model) ==
    IF completion.threw
    THEN Scanned(Return(Failure(handleApiError(completion.value), model)), FALSE)
    ELSE LET x == generateImage_extract(completion.value, model)
         IN  IF x.threw
             THEN Scanned(Return(Failure(handleApiError(x.value), model)), x.scanned)
             ELSE x

editImage_settled(completion, model) ==
    IF completion.threw
    THEN Scanned(Return(Failure(handleApiError(completion.value), model)), FALSE)
    ELSE LET x == editImage_extract(completion.value, model)
         IN  IF x.threw
             THEN Scanned(Return(Failure(handleApiError(x.value), model)), x.scanned)
             ELSE x

-----------------------------------------------------------------------------
(* The filesystem *)

\* fs.promises.readFile(path)
readFile(fs, path) ==
    IF path = <<>>
    THEN Throw(TypeError("The \"path\" argument must be of type string or an instance of Buffer or URL. Received undefined"))
    ELSE IF ~Has(fs, path[1])
    THEN Throw(Error("ENOENT: no such file or directory, open"))
    ELSE Return(fs[path[1]])

\* how mkdir and writeFile can go for an output path
SaveOutcomes ==
    {Return("written"),
     Throw(Error("EACCES: permission denied, mkdir")),
     Throw(Error("EISDIR: illegal operation on a directory, open")),
     Throw("string" :> "disk quota")}

\* the bytes saveImageToFile writes
saveImageToFile_buffer(base64Data) == fromBase64(base64Data)

-----------------------------------------------------------------------------
(* schemas: zod's parse of the raw arguments of a tool call *)

ZodError == ("name" :> "ZodError") @@ ("message" :> "Invalid arguments")

ModelSchema(a) ==
    IF ~Has(a, "model") THEN Return(FLASH)
    ELSE IF a["model"] \in {FLASH, PRO} THEN Return(a["model"])
    ELSE Throw(ZodError)

GenerateImageSchema(a) ==
    IF /\ DOMAIN a \subseteq {"prompt", "model", "output_path"}
       /\ Has(a, "prompt") /\ Len(a["prompt"]) >= 1 /\ Len(a["prompt"]) <= PromptMaxLength
       /\ ~ModelSchema(a).threw
       /\ Has(a, "output_path") /\ Len(a["output_path"]) >= 1
    THEN Return([prompt |-> a["prompt"], model |-> ModelSchema(a).value,
                 output_path |-> a["output_path"]])
    ELSE Throw(ZodError)

EditImageSchema(a) ==
    IF /\ DOMAIN a \subseteq {"prompt", "image_path", "model", "output_path"}
       /\ Has(a, "prompt") /\ Len(a["prompt"]) >= 1 /\ Len(a["prompt"]) <= PromptMaxLength
       /\ Has(a, "image_path") /\ Len(a["image_path"]) >= 1
       /\ ~ModelSchema(a).threw
       /\ Has(a, "output_path") /\ Len(a["output_path"]) >= 1
    THEN Return([prompt |-> a["prompt"], image_path |-> a["image_path"],
                 model |-> ModelSchema(a).value, output_path |-> a["output_path"]])
    ELSE Throw(ZodError)

-----------------------------------------------------------------------------
(* index: the tool handlers around the core functions *)

\* err instanceof Error ? err.message : String(err)
errText(err) == IF instanceofError(err) THEN err["message"] ELSE err["string"]

\* editImage's first catch: the failed result for an unreadable image file
editImage_unreadable(err, model) ==
    Return(Failure("Failed to read image file: " \o errText(err), model))

\* the i-th argument of a call, undefined past the last one
Arg(argv, i) == IF i <= Len(argv) THEN argv[i] ELSE <<>>

\* generateImage(prompt, model): its parameters, bound by position
generateImage_params(argv) == [prompt |-> Arg(argv, 1), model |-> Arg(argv, 2)]

\* editImage(prompt, imagePath, model): its parameters, bound by position
editImage_params(argv) ==
    [prompt |-> Arg(argv, 1), imagePath |-> Arg(argv, 2), model |-> Arg(argv, 3)]

\* the arguments the generate handler passes to generateImage
nanobanana_generate_image_argv(params) == <<Get(params, "prompt"), Get(params, "model")>>

\* the arguments the edit handler passes to editImage
nanobanana_edit_image_argv(params) ==
    <<Get(params, "prompt"), Get(params, "image_base64"),
      Get(params, "image_mime_type"), Get(params, "model")>>

\* if (params.output_path)
outputPathGiven(params) == Has(params, "output_path") /\ Len(params["output_path"]) > 0

\* the generate handler once generateImage has returned res: the payload it
\* returns, or <<>> when it goes on to save the image
nanobanana_generate_image_returned(res, params) ==
    IF ~res["success"] \/ ~Has(res, "image")
    THEN <<("success" :> FALSE) @@
           ("error" :> OrElse(Get(res, "error"), "Unknown error occurred")) @@
           Prop("model", Get(res, "model")) @@ Prop("text", Get(res, "text"))>>
    ELSE IF outputPathGiven(params) THEN <<>>
    ELSE <<("success" :> TRUE) @@ ("image_base64" :> res["image"].data) @@
           ("mime_type" :> res["image"].mimeType) @@
           Prop("model", Get(res, "model")) @@ Prop("text", Get(res, "text"))>>

nanobanana_edit_image_returned(res, params) ==
    IF ~res["success"] \/ ~Has(res, "image")
    THEN <<("success" :> FALSE) @@
           ("error" :> OrElse(Get(res, "error"), "Unknown error occurred")) @@
           Prop("model", Get(res, "model")) @@ Prop("text", Get(res, "text"))>>
    ELSE IF outputPathGiven(params) THEN <<>>
    ELSE <<("success" :> TRUE) @@ ("image_base64" :> res["image"].data) @@
           ("mime_type" :> res["image"].mimeType) @@
           Prop("model", Get(res, "model")) @@ Prop("text", Get(res, "text"))>>

\* the generate handler once saveImageToFile has settled
nanobanana_generate_image_saved(res, params, saved) ==
    IF saved.threw
    THEN ("success" :> FALSE) @@
         ("error" :> "Failed to save image: " \o errText(saved.value)) @@
         Prop("model", Get(res, "model"))
    ELSE ("success" :> TRUE) @@ ("saved_to" :> params["output_path"]) @@
         ("mime_type" :> res["image"].mimeType) @@
         Prop("model", Get(res, "model")) @@ Prop("text", Get(res, "text"))

nanobanana_edit_image_saved(res, params, saved) ==
    IF saved.threw
    THEN ("success" :> FALSE) @@
         ("error" :> "Failed to save image: " \o errText(saved.value)) @@
         Prop("model", Get(res, "model"))
    ELSE ("success" :> TRUE) @@ ("saved_to" :> params["output_path"]) @@
         ("mime_type" :> res["image"].mimeType) @@
         Prop("model", Get(res, "model")) @@ Prop("text", Get(res, "text"))

\* main(): the warning lines for a missing key, then the server runs
main(e) ==
    [stderr |->
        (IF ~Has(e, "GEMINI_API_KEY") \/ e["GEMINI_API_KEY"] = ""
         THEN <<"WARNING: GEMINI_API_KEY environment variable is not set.",
                "Get your API key from https://aistudio.google.com/apikey",
                "The server will start but API calls will fail without a valid key.">>
         ELSE <<>>) \o <<"Nanobanana MCP server running via stdio">>,
     server |-> "running"]

-----------------------------------------------------------------------------
(* The state machine: each call runs from its invocation to its first      *)
(* await, and then from the settling of one await to the next.             *)

CallIds == {1, 2}

\* the calls the specification Spec invokes
SpecCalls == {1}

CoreEntries == {"generateImage", "editImage"}

ToolEntries == {"nanobanana_generate_image", "nanobanana_edit_image"}

IsEdit(ent) == ent \in {"editImage", "nanobanana_edit_image"}

P_cat == <<"/", "i", "n", "/", "c", "a", "t", ".", "p", "n", "g">>

P_shot == <<"s", "h", "o", "t", ".", "J", "P", "G">>

P_gone == <<"g", "o", "n", "e", ".", "g", "i", "f">>

P_out == <<"o", "u", "t", "/", "o", ".", "p", "n", "g">>

InputPaths == {P_cat, P_shot, P_gone}

InitialFiles == (P_cat :> <<137, 80, 78>>) @@ (P_shot :> <<255, 216, 255, 224>>)

Prompts == {"a red balloon"}

Models == {FLASH, PRO}

Environments == {Empty, "GEMINI_API_KEY" :> "", "GEMINI_API_KEY" :> "k-123"}

\* the raw arguments a client sends to the generate tool
GenerateArgs ==
    {[prompt |-> "a red balloon", output_path |-> P_out],
     [prompt |-> "a red balloon", model |-> PRO, output_path |-> P_out],
     [prompt |-> "a red balloon"],
     [prompt |-> "a red balloon", model |-> PRO],
     [prompt |-> "", output_path |-> P_out],
     [prompt |-> "a red balloon", output_path |-> P_out, size |-> "1K"]}

\* the raw arguments a client sends to the edit tool
EditArgs ==
    {[prompt |-> "make it blue", image_path |-> P_cat, output_path |-> P_out],
     [prompt |-> "make it blue", image_path |-> P_shot, model |-> PRO,
      output_path |-> P_out],
     [prompt |-> "make it blue", image_path |-> P_gone, output_path |-> P_out],
     [prompt |-> "make it blue", image_path |-> P_cat],
     [prompt |-> "make it blue", image_base64 |-> <<"i", "V", "B", "O">>,
      image_mime_type |-> "image/png", model |-> PRO, output_path |-> P_out],
     [prompt |-> "make it blue", image_base64 |-> <<"i", "V", "B", "O">>]}

NoFrame ==
    [prompt |-> <<>>, imagePath |-> <<>>, model |-> <<>>, params |-> Empty,
     scanned |-> FALSE, saved |-> <<>>]

Init ==
    /\ env \in Environments
    /\ server = "init"
    /\ stderr = <<>>
    /\ files = InitialFiles
    /\ pc = [c \in CallIds |-> "idle"]
    /\ entry = [c \in CallIds |-> ""]
    /\ args = [c \in CallIds |-> Empty]
    /\ frame = [c \in CallIds |-> NoFrame]
    /\ sent = <<>>
    /\ reply = [c \in CallIds |-> <<>>]
    /\ result = [c \in CallIds |-> <<>>]
    /\ payload = [c \in CallIds |-> <<>>]

\* main() at startup
Main ==
    /\ server = "init"
    /\ server' = main(env).server
    /\ stderr' = stderr \o main(env).stderr
    /\ UNCHANGED <<env, files, pc, entry, args, frame, sent, reply, result, payload>>

\* The core function of entry `ent` completes with x.  What it throws is
\* caught by nobody (the handlers await it outside any try): the call ends
\* as an unhandled rejection.  When it returns a result object, a direct
\* call is done, and a tool handler returns its payload or goes on to save
\* the image.
Returned(c, ent, fr, x) ==
    IF x.threw
    THEN /\ pc' = [pc EXCEPT ![c] = "crashed"]
         /\ UNCHANGED <<result, payload>>
    ELSE
    LET res == x.value IN
    /\ result' = [result EXCEPT ![c] = <<res>>]
    /\ IF ent \in CoreEntries
       THEN /\ pc' = [pc EXCEPT ![c] = "done"]
            /\ UNCHANGED payload
       ELSE LET pay == IF ent = "nanobanana_generate_image"
                       THEN nanobanana_generate_image_returned(res, fr.params)
                       ELSE nanobanana_edit_image_returned(res, fr.params)
            IN  IF pay = <<>>
                THEN /\ pc' = [pc EXCEPT ![c] = "saving"]
                     /\ UNCHANGED payload
                ELSE /\ pc' = [pc EXCEPT ![c] = "done"]
                     /\ payload' = [payload EXCEPT ![c] = pay]

\* The core function calls makeGeminiRequest(model, request): the call is
\* suspended on the POST, or the missing key makes the core function return.
Request(c, ent, fr, request) ==
    LET m == makeGeminiRequest(env, fr.model, request)
    IN  IF m.threw
        THEN /\ Returned(c, ent, fr,
                         IF IsEdit(ent) THEN editImage_settled(m, fr.model)
                         ELSE generateImage_settled(m, fr.model))
             /\ UNCHANGED sent
        ELSE /\ sent' = Append(sent, [call |-> c, request |-> m.value])
             /\ pc' = [pc EXCEPT ![c] = "posting"]
             /\ UNCHANGED <<result, payload>>

\* generateImage up to its await
generateImage(c, ent, fr) ==
    /\ frame' = [frame EXCEPT ![c] = fr]
    /\ Request(c, ent, fr, generateImage_request(fr.prompt))

\* editImage up to its first await, the read of the image file
editImage(c, ent, fr) ==
    /\ frame' = [frame EXCEPT ![c] = fr]
    /\ pc' = [pc EXCEPT ![c] = "reading"]
    /\ UNCHANGED <<sent, result, payload>>

\* a direct call generateImage(prompt, model)
CallGenerateImage(c, prompt, model) ==
    /\ pc[c] = "idle"
    /\ entry' = [entry EXCEPT ![c] = "generateImage"]
    /\ generateImage(c, "generateImage",
                     [NoFrame EXCEPT !.prompt = <<prompt>>, !.model = <<model>>])
    /\ UNCHANGED <<env, server, stderr, files, args, reply>>

\* a direct call editImage(prompt, imagePath, model)
CallEditImage(c, prompt, imagePath, model) ==
    /\ pc[c] = "idle"
    /\ entry' = [entry EXCEPT ![c] = "editImage"]
    /\ editImage(c, "editImage",
                 [NoFrame EXCEPT !.prompt = <<prompt>>, !.imagePath = <<imagePath>>,
                                 !.model = <<model>>])
    /\ UNCHANGED <<env, server, stderr, files, args, reply>>

\* a call of the tool nanobanana_generate_image with raw arguments a: the
\* schema rejects them, or the handler runs up to its first await
nanobanana_generate_image(c, a) ==
    /\ server = "running"
    /\ pc[c] = "idle"
    /\ entry' = [entry EXCEPT ![c] = "nanobanana_generate_image"]
    /\ args' = [args EXCEPT ![c] = a]
    /\ LET parsed == GenerateImageSchema(a)
       IN  IF parsed.threw
           THEN /\ pc' = [pc EXCEPT ![c] = "rejected"]
                /\ UNCHANGED <<frame, sent, result, payload>>
           ELSE LET p == generateImage_params(nanobanana_generate_image_argv(parsed.value))
                IN  generateImage(c, "nanobanana_generate_image",
                                  [NoFrame EXCEPT !.prompt = p.prompt, !.model = p.model,
                                                  !.params = parsed.value])
    /\ UNCHANGED <<env, server, stderr, files, reply>>

\* a call of the tool nanobanana_edit_image with raw arguments a
nanobanana_edit_image(c, a) ==
    /\ server = "running"
    /\ pc[c] = "idle"
    /\ entry' = [entry EXCEPT ![c] = "nanobanana_edit_image"]
    /\ args' = [args EXCEPT ![c] = a]
    /\ LET parsed == EditImageSchema(a)
       IN  IF parsed.threw
           THEN /\ pc' = [pc EXCEPT ![c] = "rejected"]
                /\ UNCHANGED <<frame, sent, result, payload>>
           ELSE LET p == editImage_params(nanobanana_edit_image_argv(parsed.value))
                IN  editImage(c, "nanobanana_edit_image",
                              [NoFrame EXCEPT !.prompt = p.prompt,
                                              !.imagePath = p.imagePath,
                                              !.model = p.model,
                                              !.params = parsed.value])
    /\ UNCHANGED <<env, server, stderr, files, reply>>

\* editImage when readFile settles: the failed result for an unreadable
\* file, or the request with the file's base64 text and MIME type
readFile_settled(c) ==
    /\ pc[c] = "reading"
    /\ LET fr == frame[c]
           rd == readFile(files, fr.imagePath)
       IN  IF rd.threw
           THEN /\ Returned(c, entry[c], fr, editImage_unreadable(rd.value, fr.model))
                /\ UNCHANGED sent
           ELSE Request(c, entry[c], fr,
                        editImage_request(fr.prompt, getMimeTypeFromPath(fr.imagePath[1]),
                                          toBase64(rd.value)))
    /\ UNCHANGED <<env, server, stderr, files, entry, args, frame, reply>>

\* axiosPost_settled sending the request again after a failure
axiosPost_settledRetries(c, s) ==
    /\ pc[c] = "posting"
    /\ reply' = [reply EXCEPT ![c] = <<s>>]
    /\ IF ~s.ok
       THEN /\ sent' = Append(sent, [call |-> c,
                  request |-> makeGeminiRequest(env, frame[c].model, Empty).value])
            /\ UNCHANGED <<env, server, stderr, files, pc, entry, args, frame, result,
                           payload>>
       ELSE LET fr == frame[c]
                x == IF IsEdit(entry[c])
                     THEN editImage_settled(makeGeminiRequest_settled(s), fr.model)
                     ELSE generateImage_settled(makeGeminiRequest_settled(s), fr.model)
            IN  /\ frame' = [frame EXCEPT ![c].scanned = x.scanned]
                /\ Returned(c, entry[c], fr, x)
                /\ UNCHANGED <<env, server, stderr, files, entry, args, sent>>

\* axiosPost_settled resuming with the state of the call that posted last,
\* as if the model and the mode were kept in one module-level variable
axiosPost_settledSharedState(c, s) ==
    /\ pc[c] = "posting"
    /\ reply' = [reply EXCEPT ![c] = <<s>>]
    /\ LET last == sent[Len(sent)].call
           fr == frame[c]
           x == IF IsEdit(entry[last])
                THEN editImage_settled(makeGeminiRequest_settled(s), frame[last].model)
                ELSE generateImage_settled(makeGeminiRequest_settled(s), frame[last].model)
       IN  /\ frame' = [frame EXCEPT ![c].scanned = x.scanned]
           /\ Returned(c, entry[c], fr, x)
    /\ UNCHANGED <<env, server, stderr, files, entry, args, sent>>

\* the core function when axios.post settles with s
axiosPost_settled(c, s) ==
    /\ pc[c] = "posting"
    /\ reply' = [reply EXCEPT ![c] = <<s>>]
    /\ LET fr == frame[c]
           x == IF IsEdit(entry[c])
                THEN editImage_settled(makeGeminiRequest_settled(s), fr.model)
                ELSE generateImage_settled(makeGeminiRequest_settled(s), fr.model)
       IN  /\ frame' = [frame EXCEPT ![c].scanned = x.scanned]
           /\ Returned(c, entry[c], fr, x)
    /\ UNCHANGED <<env, server, stderr, files, entry, args, sent>>

\* the tool handler when saveImageToFile settles
saveImageToFile_settled(c, saved) ==
    /\ pc[c] = "saving"
    /\ pc' = [pc EXCEPT ![c] = "done"]
    /\ frame' = [frame EXCEPT ![c].saved = <<saved>>]
    /\ LET res == result[c][1]
           params == frame[c].params
       IN  /\ files' = IF saved.threw THEN files
                       ELSE (params["output_path"] :>
                                saveImageToFile_buffer(res["image"].data)) @@ files
           /\ payload' = [payload EXCEPT ![c] =
                  <<IF entry[c] = "nanobanana_generate_image"
                    THEN nanobanana_generate_image_saved(res, params, saved)
                    ELSE nanobanana_edit_image_saved(res, params, saved)>>]
    /\ UNCHANGED <<env, server, stderr, entry, args, sent, reply, result>>

Step(c) ==
    \/ \E p \in Prompts, m \in Models : CallGenerateImage(c, p, m)
    \/ \E p \in Prompts, i \in InputPaths, m \in Models : CallEditImage(c, p, i, m)
    \/ \E a \in GenerateArgs : nanobanana_generate_image(c, a)
    \/ \E a \in EditArgs : nanobanana_edit_image(c, a)
    \/ readFile_settled(c)
    \/ \E s \in Settlements : axiosPost_settled(c, s)
    \/ \E saved \in SaveOutcomes : saveImageToFile_settled(c, saved)

Next == Main \/ \E c \in SpecCalls : Step(c)

Spec == Init /\ [][Next]_vars

\* Every await settles: the filesystem answers, and axios settles the POST
\* with a response, a failure or, after API_TIMEOUT, a timeout.
Fairness ==
    \A c \in SpecCalls :
        /\ WF_vars(readFile_settled(c))
        /\ WF_vars(\E s \in Settlements : axiosPost_settled(c, s))
        /\ WF_vars(\E saved \in SaveOutcomes : saveImageToFile_settled(c, saved))

FairSpec == Spec /\ Fairness

\* Several invocations in flight at once.  Node runs one callback at a
\* time, so the steps of the calls interleave at their awaits; the inputs
\* are a few of each kind, and an edit may name the file a generate call
\* saves.

ConcInputPaths == {P_cat, P_out}

ConcGenerateArgs ==
    {[prompt |-> "a red balloon", model |-> PRO, output_path |-> P_out],
     [prompt |-> "a red balloon"]}

ConcEditArgs ==
    {[prompt |-> "make it blue", image_path |-> P_cat, output_path |-> P_out]}

ConcSettlements ==
    {[ok |-> TRUE,
      value |-> ("status" :> 200) @@
                ("data" :> ("candidates" :>
                    <<Candidate(<<TextPart("Here is your balloon"),
                                  InlineDataPart("image/png", <<"i", "V", "B", "O">>)>>,
                                "STOP")>>))],
     [ok |-> TRUE,
      value |-> ("status" :> 200) @@
                ("data" :> ("candidates" :>
                    <<Candidate(<<TextPart("I can't create that image.")>>, "STOP")>>))],
     [ok |-> FALSE,
      value |-> AxiosError("Request failed with status code 429", <<"ERR_BAD_REQUEST">>,
                           <<("status" :> 429) @@ Empty>>)],
     [ok |-> FALSE,
      value |-> AxiosError("timeout of 60000ms exceeded", <<"ECONNABORTED">>, <<>>)]}

ConcStep(c) ==
    \/ \E m \in Models : CallGenerateImage(c, "a red balloon", m)
    \/ \E i \in ConcInputPaths : CallEditImage(c, "make it blue", i, FLASH)
    \/ \E a \in ConcGenerateArgs : nanobanana_generate_image(c, a)
    \/ \E a \in ConcEditArgs : nanobanana_edit_image(c, a)
    \/ readFile_settled(c)
    \/ \E s \in ConcSettlements : axiosPost_settled(c, s)
    \/ \E saved \in SaveOutcomes : saveImageToFile_settled(c, saved)

ConcNext == Main \/ \E c \in CallIds : ConcStep(c)

ConcSpec == Init /\ [][ConcNext]_vars

-----------------------------------------------------------------------------
(* Properties *)

\* the ImageGenerationResult of call c, once the core function has returned
Result(c) == result[c][1]

HasResult(c) == result[c] # <<>>

\* call c got a 2xx response
Answered(c) == reply[c] # <<>> /\ reply[c][1].ok

ResponseOf(c) == reply[c][1].value["data"]

\* the response of call c has a first candidate with a list of parts
HasFirstParts(c) ==
    /\ Answered(c)
    /\ Has(ResponseOf(c), "candidates")
    /\ Len(ResponseOf(c)["candidates"]) >= 1
    /\ Has(ResponseOf(c)["candidates"][1], "content")
    /\ Has(ResponseOf(c)["candidates"][1]["content"], "parts")

FirstCandidate(c) == ResponseOf(c)["candidates"][1]

FirstParts(c) == FirstCandidate(c)["content"]["parts"]

\* the positions of the parts with property k
Positions(parts, k) == {i \in 1..Len(parts) : Has(parts[i], k)}

Last(S) == CHOOSE i \in S : \A j \in S : j <= i

\* the text the result must carry: that of the last text part, if any
LastText(parts) ==
    IF Positions(parts, "text") = {} THEN <<>>
    ELSE <<parts[Last(Positions(parts, "text"))]["text"]>>

\* C1: every result generateImage or editImage returns, on every path, has
\* success true if and only if its image field is present.
C1_SuccessIffImage ==
    \A c \in CallIds : HasResult(c) => (Result(c)["success"] <=> Has(Result(c), "image"))

\* C1's case: an edit that returned a result with success true and an image
C1_Witness ==
    /\ entry[1] = "editImage" /\ HasResult(1)
    /\ Result(1)["success"] /\ Has(Result(1), "image")

\* C2: when the first candidate has at least one inline-data part, the
\* result is success with the last inline-data part as image, the last text
\* part (if any) as text and the first candidate's finishReason; nothing of
\* a later candidate is in it.
C2_LastImageWins ==
    \A c \in CallIds :
        (HasFirstParts(c) /\ Positions(FirstParts(c), "inlineData") # {}) =>
            LET parts == FirstParts(c)
                img == parts[Last(Positions(parts, "inlineData"))]["inlineData"]
            IN  /\ HasResult(c)
                /\ Result(c) =
                       ("success" :> TRUE) @@ ("model" :> frame[c].model[1]) @@
                       ("finishReason" :> FirstCandidate(c)["finishReason"]) @@
                       ("image" :> [mimeType |-> img.mimeType, data |-> img.data]) @@
                       Prop("text", LastText(parts))

\* C2's case: two inline-data parts in the first candidate, and a second candidate
C2_Witness ==
    /\ entry[1] = "editImage" /\ pc[1] = "done" /\ HasFirstParts(1)
    /\ Len(ResponseOf(1)["candidates"]) = 2
    /\ Cardinality(Positions(FirstParts(1), "inlineData")) = 2
    /\ FirstParts(1)[1] # FirstParts(1)[2]

NoImageMessage(ent) ==
    IF IsEdit(ent)
    THEN "No edited image was generated. The model may have refused or encountered an issue."
    ELSE "No image was generated. The model may have refused or encountered an issue."

\* an object without its property k
Without(o, k) == [x \in DOMAIN o \ {k} |-> o[x]]

\* C3: when the first candidate has only text parts (or no parts), the
\* result is a failure without image, with the last text part's text (none
\* when there is no part) and the message of the call kind; for the same
\* response the two call kinds differ in that message alone.
C3_TextOnlyFails ==
    \A c \in CallIds :
        (HasFirstParts(c) /\ \A i \in 1..Len(FirstParts(c)) : Has(FirstParts(c)[i], "text")) =>
            /\ HasResult(c)
            /\ Result(c) =
                   ("success" :> FALSE) @@ ("error" :> NoImageMessage(entry[c])) @@
                   ("model" :> frame[c].model[1]) @@ Prop("text", LastText(FirstParts(c)))
            /\ LET g == generateImage_settled(Return(ResponseOf(c)), frame[c].model).value
                   e == editImage_settled(Return(ResponseOf(c)), frame[c].model).value
               IN  /\ Without(g, "error") = Without(e, "error")
                   /\ g["error"] # e["error"]
                   /\ Result(c) = IF IsEdit(entry[c]) THEN e ELSE g

\* C3's case: an edit answered with two text parts
C3_Witness ==
    /\ entry[1] = "editImage" /\ pc[1] = "done" /\ HasFirstParts(1)
    /\ Len(FirstParts(1)) = 2
    /\ \A i \in 1..2 : Has(FirstParts(1)[i], "text")
    /\ FirstParts(1)[1] # FirstParts(1)[2]

\* C4: a 2xx response without candidates, or with an empty list of them,
\* gives exactly {success: false, error: "No candidates returned from the
\* API", model}, for generate and edit alike, and the scan of the parts is
\* never entered.
C4_NoCandidates ==
    \A c \in CallIds :
        (Answered(c) /\ (~Has(ResponseOf(c), "candidates")
                         \/ Len(ResponseOf(c)["candidates"]) = 0)) =>
            /\ HasResult(c)
            /\ Result(c) = [success |-> FALSE,
                            error |-> "No candidates returned from the API",
                            model |-> frame[c].model[1]]
            /\ ~frame[c].scanned

\* C4's case: an edit answered with an empty list of candidates
C4_Witness ==
    /\ entry[1] = "editImage" /\ pc[1] = "done" /\ Answered(1)
    /\ Has(ResponseOf(1), "candidates") /\ Len(ResponseOf(1)["candidates"]) = 0

\* call c's POST was rejected with an HTTP response
HttpError(c) ==
    /\ reply[c] # <<>> /\ ~reply[c][1].ok
    /\ isAxiosError(reply[c][1].value) /\ Has(reply[c][1].value, "response")

StatusOf(c) == reply[c][1].value["response"]["status"]

FixedMessages ==
    (401 :> "Error: Invalid API key. Please check your GEMINI_API_KEY environment variable.") @@
    (404 :> "Error: Model not found. Please check the model name.") @@
    (429 :> "Error: Rate limit exceeded. Please wait before making more requests.") @@
    (500 :> "Error: Gemini API server error. Please try again later.") @@
    (503 :> "Error: Gemini API service unavailable. Please try again later.")

\* the upstream message of an error response, "" when there is none
Upstream(response) ==
    IF upstreamMessage(response) = <<>> THEN "" ELSE upstreamMessage(response)[1]

\* C5: an HTTP error response gives the fixed message of its status for
\* 401, 404, 429, 500 and 503, the templated message (upstream message, or
\* the hint) for 400 and 403, and "API request failed with status N" for
\* any other status; error responses of two different statuses never give
\* the same message.
C5_StatusMessages ==
    \A c \in CallIds :
        HttpError(c) =>
            LET st == StatusOf(c)
                up == Upstream(reply[c][1].value["response"])
                msg == Result(c)["error"]
            IN  /\ HasResult(c) /\ ~Result(c)["success"]
                /\ st \in DOMAIN FixedMessages => msg = FixedMessages[st]
                /\ st = 400 => msg = "Error: Invalid request. " \o
                        (IF up = "" THEN "Check your prompt and parameters." ELSE up)
                /\ st = 403 => msg = "Error: Access denied. " \o
                        (IF up = "" THEN "Your API key may not have access to this model."
                         ELSE up)
                /\ st \notin DOMAIN FixedMessages \cup {400, 403} =>
                        msg = "Error: API request failed with status " \o ToString(st)
                              \o ". " \o up
                /\ \A e \in Rejections :
                        (isAxiosError(e) /\ Has(e, "response") /\ e["response"]["status"] # st)
                            => handleApiError(e) # msg

\* C5's case: an unknown status with an upstream message
C5_Witness ==
    /\ pc[1] = "done" /\ HttpError(1) /\ StatusOf(1) = 418
    /\ Upstream(reply[1][1].value["response"]) # ""

NoKey == ~Has(env, "GEMINI_API_KEY") \/ env["GEMINI_API_KEY"] = ""

KeyErrorMessage ==
    "Error: GEMINI_API_KEY environment variable is required. Get your API key from https://aistudio.google.com/apikey"

\* the requests call c has issued
Posts(c) == {i \in 1..Len(sent) : sent[i].call = c}

\* main() starts the server whatever the environment, warning of a missing key
ServerStarts ==
    /\ server \in {"init", "running"}
    /\ server = "init" => ENABLED Main
    /\ (server = "running" /\ NoKey) =>
           stderr[1] = "WARNING: GEMINI_API_KEY environment variable is not set."

\* C6 as stated: without an API key every generate or edit invocation ends
\* in a failed result whose error mentions GEMINI_API_KEY, no HTTP request
\* is issued during it, and the server still starts.
C6_Original ==
    /\ ServerStarts
    /\ \A c \in CallIds :
          (NoKey /\ pc[c] \notin {"idle", "rejected"}) =>
              /\ Posts(c) = {} /\ pc[c] # "posting"
              /\ pc[c] = "done" =>
                    /\ HasResult(c) /\ ~Result(c)["success"]
                    /\ Result(c)["error"] = KeyErrorMessage

\* the read of the image file fails: editImage got no path, or the path of
\* no file
Unreadable(c) == frame[c].imagePath = <<>> \/ ~Has(files, frame[c].imagePath[1])

ReadErrorMessages ==
    {"Failed to read image file: ENOENT: no such file or directory, open",
     "Failed to read image file: The \"path\" argument must be of type string or an instance of Buffer or URL. Received undefined"}

\* C6, amended: without an API key no HTTP request is issued during a
\* generate or edit invocation and the invocation ends in a failed result;
\* the error mentions GEMINI_API_KEY for a generate invocation and for an
\* edit invocation whose image file was read, and is the read failure for
\* an edit invocation whose read of the image file fails (the file is read
\* before the key is looked up); the server still starts, with a warning.
C6_NoKeyFailsBeforeRequest ==
    /\ ServerStarts
    /\ \A c \in CallIds :
          (NoKey /\ pc[c] \notin {"idle", "rejected"}) =>
              /\ Posts(c) = {} /\ pc[c] \in {"reading", "done"}
              /\ pc[c] = "done" =>
                    /\ HasResult(c) /\ ~Result(c)["success"]
                    /\ IF IsEdit(entry[c]) /\ Unreadable(c)
                       THEN Result(c)["error"] \in ReadErrorMessages
                       ELSE Result(c)["error"] = KeyErrorMessage
                    /\ entry[c] \in ToolEntries =>
                          /\ payload[c] # <<>>
                          /\ ~payload[c][1]["success"]
                          /\ payload[c][1]["error"] = Result(c)["error"]

\* C6's case: an edit of a readable file without a key, the server running
C6_Witness ==
    /\ NoKey /\ server = "running"
    /\ entry[1] = "editImage" /\ pc[1] = "done" /\ ~Unreadable(1)
    /\ Result(1)["error"] = KeyErrorMessage

\* C7: an invocation issues at most one POST, whatever the POST settles
\* with, and it always ends, with a result once the core function ran.
C7_SingleAttempt ==
    /\ [](\A c \in CallIds :
             /\ Cardinality(Posts(c)) <= 1
             /\ (pc[c] = "done") => HasResult(c)
             /\ (reply[c] # <<>> /\ ~reply[c][1].ok) =>
                   (pc[c] = "done" /\ Cardinality(Posts(c)) = 1))
    /\ \A c \in CallIds : (pc[c] # "idle") ~> (pc[c] \in {"done", "rejected"})

\* C7's case: the POST timed out, and the call is done after its one request
C7_Witness ==
    /\ pc[1] = "done" /\ reply[1] # <<>> /\ ~reply[1][1].ok
    /\ Get(reply[1][1].value, "code") = <<"ECONNABORTED">>
    /\ Cardinality(Posts(1)) = 1 /\ HasResult(1)

\* the raw arguments a lack nothing but the output path
OmitsOutputPath(ent, a) ==
    /\ ~Has(a, "output_path")
    /\ IF ent = "nanobanana_generate_image"
       THEN ~GenerateImageSchema(a @@ [output_path |-> P_out]).threw
       ELSE ~EditImageSchema(a @@ [output_path |-> P_out]).threw

\* C8 as stated: the output path of the tools is optional.  A call that
\* gives it saves the decoded image after a successful generation and
\* reports {success, saved_to, mime_type, model, text}; a call that omits it
\* is accepted, reports {success, image_base64, mime_type, model, text} and
\* writes no file.
C8_OutputPathOptional ==
    \A c \in CallIds :
        entry[c] \in ToolEntries =>
            /\ OmitsOutputPath(entry[c], args[c]) =>
                  /\ pc[c] # "rejected"
                  /\ (pc[c] = "done" /\ HasResult(c) /\ Result(c)["success"]) =>
                        /\ payload[c] =
                              <<("success" :> TRUE) @@
                                ("image_base64" :> Result(c)["image"].data) @@
                                ("mime_type" :> Result(c)["image"].mimeType) @@
                                ("model" :> Result(c)["model"]) @@
                                Prop("text", Get(Result(c), "text"))>>
                        /\ files = InitialFiles
            /\ (Has(args[c], "output_path") /\ pc[c] = "done" /\ HasResult(c)
                  /\ Result(c)["success"] /\ ~frame[c].saved[1].threw) =>
                  /\ payload[c] =
                        <<("success" :> TRUE) @@ ("saved_to" :> args[c]["output_path"]) @@
                          ("mime_type" :> Result(c)["image"].mimeType) @@
                          ("model" :> Result(c)["model"]) @@
                          Prop("text", Get(Result(c), "text"))>>
                  /\ files[args[c]["output_path"]] = fromBase64(Result(c)["image"].data)

\* C9 as stated: a validated edit tool call reaches editImage with the
\* caller's image and the selected model: the model of the call and of its
\* result is the one the caller selected (flash by default), and the call
\* goes on to read the caller's image for the request's inline-data part.
C9_EditForwardsInputs ==
    \A c \in CallIds :
        (entry[c] = "nanobanana_edit_image" /\ pc[c] \notin {"idle", "rejected"}) =>
            LET selected == IF Has(args[c], "model") THEN args[c]["model"] ELSE FLASH
            IN  /\ frame[c].model = <<selected>>
                /\ frame[c].imagePath = Get(args[c], "image_path")
                /\ HasResult(c) => Get(Result(c), "model") = <<selected>>
                /\ (pc[c] = "done" /\ ~NoKey /\ Has(InitialFiles, args[c]["image_path"]))
                      => Posts(c) # {}
                /\ \A i \in Posts(c) :
                      /\ sent[i].request.url =
                            API_BASE_URL \o "/models/" \o selected \o ":generateContent"
                      /\ sent[i].request.body.contents[1]["parts"][2] =
                            InlineDataPart(getMimeTypeFromPath(args[c]["image_path"]),
                                           toBase64(InitialFiles[args[c]["image_path"]]))

\* the response of call c holds no image the extractor can take
NoImageIn(c) ==
    Answered(c) /\ (~HasFirstParts(c) \/ Positions(FirstParts(c), "inlineData") = {})

\* something failed during tool call c
Failed(c) ==
    \/ IsEdit(entry[c]) /\ Unreadable(c)
    \/ NoKey
    \/ reply[c] # <<>> /\ ~reply[c][1].ok
    \/ NoImageIn(c)
    \/ frame[c].saved # <<>> /\ frame[c].saved[1].threw

\* C10: no failure escapes a generate or edit tool call: the handler always
\* returns a payload, and after a failure of the file read, the key lookup,
\* the network call, the extraction or the save, the payload has success
\* false, a non-empty error and neither image_base64 nor saved_to.
C10_NoFailureEscapes ==
    \A c \in CallIds :
        /\ pc[c] # "crashed"
        /\ (entry[c] \in ToolEntries /\ pc[c] = "done") =>
              /\ payload[c] # <<>>
              /\ Failed(c) =>
                    /\ payload[c][1]["success"] = FALSE
                    /\ Has(payload[c][1], "error") /\ payload[c][1]["error"] # ""
                    /\ ~Has(payload[c][1], "image_base64")
                    /\ ~Has(payload[c][1], "saved_to")

\* C10's case: a generate tool call answered with a first candidate that
\* has no content
C10_Witness ==
    /\ entry[1] = "nanobanana_generate_image" /\ pc[1] = "done"
    /\ Answered(1) /\ Has(ResponseOf(1), "candidates")
    /\ ResponseOf(1)["candidates"] = <<BlockedCandidate>>
    /\ payload[1] # <<>> /\ ~payload[1][1]["success"]

\* the prompt the caller of call c gave: the argument of a direct call, the
\* prompt property of a tool call's arguments
CallerPrompt(c) ==
    IF entry[c] \in ToolEntries THEN args[c]["prompt"] ELSE frame[c].prompt[1]

\* C13: every request sent upstream has exactly one Content entry, without
\* role, whose first part is the text part with the caller's prompt;
\* generate sends that part alone, edit sends exactly one inline-data part
\* after it (never before); responseModalities is exactly
\* <<"TEXT", "IMAGE">> in both modes.
C13_RequestShape ==
    \A i \in 1..Len(sent) :
        LET c == sent[i].call
            body == sent[i].request.body
            parts == body.contents[1]["parts"]
        IN  /\ DOMAIN body = {"contents", "generationConfig"}
            /\ Len(body.contents) = 1
            /\ DOMAIN body.contents[1] = {"parts"}
            /\ Len(parts) >= 1
            /\ parts[1] = TextPart(CallerPrompt(c))
            /\ Len(parts) = IF IsEdit(entry[c]) THEN 2 ELSE 1
            /\ IsEdit(entry[c]) =>
                  /\ DOMAIN parts[2] = {"inlineData"}
                  /\ parts[2]["inlineData"] =
                        [mimeType |-> getMimeTypeFromPath(frame[c].imagePath[1]),
                         data |-> toBase64(InitialFiles[frame[c].imagePath[1]])]
            /\ DOMAIN body.generationConfig = {"responseModalities"}
            /\ body.generationConfig.responseModalities = <<"TEXT", "IMAGE">>

\* C13's case: an edit has sent its request, for a file with an upper-case
\* extension
C13_Witness ==
    /\ Len(sent) = 1 /\ sent[1].call = 1 /\ entry[1] = "editImage"
    /\ frame[1].imagePath = <<P_shot>>
    /\ Len(sent[1].request.body.contents[1]["parts"]) = 2

\* call c's POST was rejected
Rejected(c) == reply[c] # <<>> /\ ~reply[c][1].ok

\* the value call c's POST was rejected with
RejectionOf(c) == reply[c][1].value

TimeoutMessage ==
    "Error: Request timed out. Image generation can take a while - please try again."

NetworkMessage ==
    "Error: Unable to reach Gemini API. Please check your network connection."

\* the message of the status table for a response of status st whose
\* upstream message is up ("" when it has none)
ByStatus(st, up) ==
    IF st \in DOMAIN FixedMessages THEN FixedMessages[st]
    ELSE IF st = 400
    THEN "Error: Invalid request. " \o
         (IF up = "" THEN "Check your prompt and parameters." ELSE up)
    ELSE IF st = 403
    THEN "Error: Access denied. " \o
         (IF up = "" THEN "Your API key may not have access to this model." ELSE up)
    ELSE "Error: API request failed with status " \o ToString(st) \o ". " \o up

\* a failure's own description: an Error's message, String(v) of another value
Description(e) == IF Has(e, "message") THEN e["message"] ELSE e["string"]

\* C12: the classifier is total and the first matching rule wins: whatever
\* a call's POST is rejected with (a transport error, an ordinary Error, a
\* value that is no Error), the call returns a failure whose message is one
\* string; a transport error with an HTTP response is classified by its
\* status even when it also carries the connection-abort or the
\* host-resolution code; without a response the connection-abort code gives
\* the fixed timeout message and the host-resolution code the fixed network
\* message; every other failure gives "Error: " and the failure's own
\* description.
C12_ClassifierOrder ==
    \A c \in CallIds :
        Rejected(c) =>
            LET e == RejectionOf(c)
                msg == Result(c)["error"]
                code == Get(e, "code")
            IN  /\ HasResult(c) /\ ~Result(c)["success"]
                /\ pc[c] # "crashed"
                /\ msg \in STRING
                /\ IF isAxiosError(e) /\ Has(e, "response")
                   THEN msg = ByStatus(e["response"]["status"], Upstream(e["response"]))
                   ELSE IF isAxiosError(e) /\ code = <<"ECONNABORTED">>
                   THEN msg = TimeoutMessage
                   ELSE IF isAxiosError(e) /\ code = <<"ENOTFOUND">>
                   THEN msg = NetworkMessage
                   ELSE msg = "Error: " \o Description(e)

\* C12's case: a call has ended on a rejection that carries both an HTTP
\* response and the connection-abort code
C12_Witness ==
    /\ pc[1] = "done" /\ Rejected(1)
    /\ isAxiosError(RejectionOf(1)) /\ Has(RejectionOf(1), "response")
    /\ Get(RejectionOf(1), "code") = <<"ECONNABORTED">>
    /\ Result(1)["error"] = FixedMessages[503]

\* the model argument call c's core function was given: the argument of a
\* direct call, what the handler of a tool call passes on from its own
\* arguments
OwnModel(c) ==
    IF entry[c] = "nanobanana_generate_image"
    THEN generateImage_params(
             nanobanana_generate_image_argv(GenerateImageSchema(args[c]).value)).model
    ELSE IF entry[c] = "nanobanana_edit_image"
    THEN editImage_params(
             nanobanana_edit_image_argv(EditImageSchema(args[c]).value)).model
    ELSE frame[c].model

\* what call c's core function completes with when it runs alone and its
\* POST settles as call c's POST did
AloneSettled(c) ==
    IF IsEdit(entry[c])
    THEN editImage_settled(makeGeminiRequest_settled(reply[c][1]), OwnModel(c))
    ELSE generateImage_settled(makeGeminiRequest_settled(reply[c][1]), OwnModel(c))

\* the payload a tool call returns when it runs alone, from the result res of
\* its core function and the outcome of its own save
AlonePayload(c, res) ==
    LET params == IF entry[c] = "nanobanana_generate_image"
                  THEN GenerateImageSchema(args[c]).value
                  ELSE EditImageSchema(args[c]).value
        returned == IF entry[c] = "nanobanana_generate_image"
                    THEN nanobanana_generate_image_returned(res, params)
                    ELSE nanobanana_edit_image_returned(res, params)
    IN  IF returned # <<>> THEN returned
        ELSE IF entry[c] = "nanobanana_generate_image"
        THEN <<nanobanana_generate_image_saved(res, params, frame[c].saved[1])>>
        ELSE <<nanobanana_edit_image_saved(res, params, frame[c].saved[1])>>

\* the requests call c has sent
RequestsOf(c) == {i \in 1..Len(sent) : sent[i].call = c}

\* C11: concurrent calls do not interfere: under every interleaving of
\* generate and edit calls suspended at their POST, the request of a call
\* carries the call's own prompt and model, and the call's result (and, for
\* a tool call, its payload) is the one its own arguments and its own
\* upstream response or failure give when the call runs alone.
C11_CallsIndependent ==
    \A c \in CallIds :
        /\ \A i \in RequestsOf(c) :
              /\ sent[i].request.url =
                     API_BASE_URL \o "/models/" \o Str(OwnModel(c)) \o ":generateContent"
              /\ sent[i].request.body.contents[1]["parts"][1] = TextPart(CallerPrompt(c))
        /\ reply[c] # <<>> =>
              LET x == AloneSettled(c)
              IN  /\ RequestsOf(c) # {}
                  /\ pc[c] \in {"saving", "done", "crashed"}
                  /\ x.threw <=> pc[c] = "crashed"
                  /\ ~x.threw =>
                        /\ result[c] = <<x.value>>
                        /\ (pc[c] = "done" /\ entry[c] \in ToolEntries) =>
                              payload[c] = AlonePayload(c, x.value)

\* C11's case: call 1, a tool call for the other model, posted first and is
\* still suspended at its POST while call 2, an edit that posted after it,
\* already has its result
C11_Witness ==
    /\ Len(sent) = 2 /\ sent[1].call = 1 /\ sent[2].call = 2
    /\ entry[1] = "nanobanana_generate_image" /\ OwnModel(1) = <<PRO>>
    /\ pc[1] = "posting"
    /\ entry[2] = "editImage" /\ OwnModel(2) = <<FLASH>>
    /\ pc[2] = "done" /\ reply[2] # <<>> /\ reply[2][1].ok
    /\ result[2][1]["success"]

====
